---- MODULE Spec2Model ----
(***************************************************************************)
(* Model of the incremental aggregation engine of solarlogging             *)
(* (src/solarweb/aggregator.py).                                           *)
(*                                                                         *)
(* Time is an integer number of minutes since 2024-01-01T00:00 UTC, which  *)
(* is a Monday and the first day of a month.  All timestamps of the        *)
(* program are UTC datetimes written with isoformat(); for one UTC offset  *)
(* the lexicographic order SQLite applies to these strings is the          *)
(* chronological order, so the SQL comparisons are modelled on the         *)
(* integers.  Sample values are integers; a stored average is an exact     *)
(* fraction <<numerator, denominator>> in lowest terms.  A row whose       *)
(* timestamp string datetime.fromisoformat() rejects keeps its place in    *)
(* the string order (ts) and has valid = FALSE.                            *)
(***************************************************************************)
EXTENDS Integers, Sequences, FiniteSets, TLC

VARIABLES
    res,      \* the resolution whose pass is observed (self.table)
    source,   \* rows of self.source_table, in id order
    target,   \* rows of self.table, in id order
    last,     \* what the most recent process_aggregation call did
    db        \* the six tables of the database, where all of them are observed

vars == <<res, source, target, last, db>>

-----------------------------------------------------------------------------
(* Bounds of the model *)

\* most rows the source table holds
MaxSrc == 4

\* a finite deadline expires at the latest at the (MaxChecks+1)-th check
MaxChecks == 3

-----------------------------------------------------------------------------
(* Program constants *)

\* "Query about 2000 slots worth of data at a time"
WindowSlots == 2000

Day == 24 * 60

Resolutions == {"fiveminute", "hourly", "weekly", "monthly"}

\* self.source_table of each aggregator class
source_table(r) == IF r \in {"fiveminute", "hourly"} THEN "samples" ELSE "daily"

-----------------------------------------------------------------------------
(* Slot geometry: time_slot and time_slot_increment of the four classes *)

\* day of the month (1..31) of day number D, D = 0 being 2024-01-01
DayOfMonth(D) ==
    LET z   == D + 739191      \* days since 0000-03-01
        doe == z % 146097
        yoe == (doe - (doe \div 1460) + (doe \div 36524) - (doe \div 146096)) \div 365
        doy == doe - (365 * yoe + (yoe \div 4) - (yoe \div 100))
        mp  == (5 * doy + 2) \div 153
    IN  doy - ((153 * mp + 2) \div 5) + 1

\* dt.replace(hour=0, minute=0, second=0, microsecond=0)
Midnight(dt) == dt - (dt % Day)

\* dt.weekday(), Monday = 0
Weekday(dt) == (dt \div Day) % 7

\* dt.replace(day=1, hour=0, minute=0, second=0, microsecond=0)
MonthStart(dt) == Midnight(dt) - (DayOfMonth(dt \div Day) - 1) * Day

\* the timestamp is rounded to the nearest five minutes
FiveMinute_time_slot_nearest(dt) == ((dt + 2) \div 5) * 5

FiveMinute_time_slot(dt) ==
    LET hour     == dt - (dt % 60)
        slot_num == (dt - hour) \div 5
    IN  hour + 5 * slot_num

Hourly_time_slot(dt) == dt - (dt % 60)

\* the week starts on Sunday
Weekly_time_slot_from_sunday(dt) ==
    Midnight(dt) - Day * ((Weekday(dt) + 1) % 7)

Weekly_time_slot(dt) == Midnight(dt) - Day * Weekday(dt)

Monthly_time_slot(dt) == MonthStart(dt)

time_slot(r, dt) ==
    CASE r = "fiveminute" -> FiveMinute_time_slot(dt)
      [] r = "hourly"     -> Hourly_time_slot(dt)
      [] r = "weekly"     -> Weekly_time_slot(dt)
      [] r = "monthly"    -> Monthly_time_slot(dt)

\* four weeks are added instead of 31 days
Monthly_time_slot_increment_by_four_weeks(dt, increment) ==
    IF increment <= 0 THEN dt ELSE MonthStart(dt + 28 * Day)

\* 30 days are added instead of 31
RECURSIVE Monthly_time_slot_increment_by_thirty_days(_, _)
Monthly_time_slot_increment_by_thirty_days(dt, increment) ==
    IF increment <= 0 THEN dt
    ELSE Monthly_time_slot_increment_by_thirty_days(
             MonthStart(dt + 30 * Day), increment - 1)

\* The loop "for _ in range(increment)" of MonthlyAggregator, its range split
\* in two halves so that the evaluation nests only log(increment) deep.
RECURSIVE Monthly_time_slot_increment(_, _)
Monthly_time_slot_increment(dt, increment) ==
    IF increment <= 0 THEN dt
    ELSE IF increment = 1 THEN MonthStart(dt + 31 * Day)
    ELSE LET half == Monthly_time_slot_increment(dt, increment \div 2)
         IN  IF half >= dt
             THEN Monthly_time_slot_increment(half, increment - (increment \div 2))
             ELSE half

time_slot_increment(r, dt, increment) ==
    CASE r = "fiveminute" -> dt + 5 * increment
      [] r = "hourly"     -> dt + 60 * increment
      [] r = "weekly"     -> dt + (7 * Day) * increment
      [] r = "monthly"    -> Monthly_time_slot_increment(dt, increment)

-----------------------------------------------------------------------------
(* Unit conversion *)

Abs(x) == IF x < 0 THEN 0 - x ELSE x

RECURSIVE GCD(_, _)
GCD(a, b) == IF b = 0 THEN a ELSE GCD(b, a % b)

\* the float value / num_samples, as an exact fraction in lowest terms
Quotient(value, num_samples) ==
    LET g == GCD(Abs(value), num_samples)
    IN  <<value \div g, num_samples \div g>>

\* every resolution stores the sum
convert_units_keeping_sum(r, value, num_samples) == <<value, 1>>

\* "value / num_samples if num_samples > 0 else 0.0" for fiveminute and
\* hourly, "value" for weekly and monthly
convert_units(r, value, num_samples) ==
    IF r \in {"fiveminute", "hourly"}
    THEN IF num_samples > 0 THEN Quotient(value, num_samples) ELSE <<0, 1>>
    ELSE <<value, 1>>

-----------------------------------------------------------------------------
(* Inputs: the rows the collaborators may append to the source table *)

\* slots in which source rows are placed: four adjacent slots, a slot
\* inside the first query window and a slot beyond it
SlotIdx == {0, 1, 2, 3, 1000, 2003}

\* <<slot, offset>>: a row at the start of a slot, or one source period later
Positions == {<<i, 0>> : i \in SlotIdx} \cup {<<1, 1>>}

\* <<grid, solar, home>> of a source row
Values == {<<0, 0, 0>>, <<100, 50, -40>>, <<0, 60, -30>>, <<-5, 0, 0>>}

\* The rows behind a long gap carry production; an all-zero row there would
\* make the slot loop walk the gap one slot per iteration.  The second row of
\* a slot is the low reading that follows a first one.  The export-only and
\* the all-zero reading come in the slots between the first and the last of
\* the adjacent slots (the first slot also opens a table with an all-zero
\* row).
Inputs ==
    {in \in Positions \X Values :
        /\ in[1][1] > 3 => in[2] = <<100, 50, -40>>
        /\ in[1][2] = 1 => in[2] \in {<<0, 60, -30>>, <<-5, 0, 0>>}
        /\ in[1][1] = 0 => in[2] # <<-5, 0, 0>>
        /\ in[1][1] = 3 => in[2] \in {<<100, 50, -40>>, <<0, 60, -30>>}}

\* the distance of the second row of a slot from the first: a minute in
\* samples, a day in daily
SourcePeriod(r) == IF source_table(r) = "samples" THEN 1 ELSE Day

CursorIdx == SlotIdx \cup {i + 1 : i \in SlotIdx}

SlotStartOf ==
    [r \in Resolutions |-> [i \in CursorIdx |-> time_slot_increment(r, 0, i)]]

TimeOf(r, pos) == SlotStartOf[r][pos[1]] + pos[2] * SourcePeriod(r)

-----------------------------------------------------------------------------
(* DataAggregator *)

Never == 0 - 1

\* deadlines: d >= 0 lets d checks pass and is expired from then on
Deadlines == (0 .. MaxChecks) \cup {Never}

\* the deadline is found expired one check late
deadline_expired_late(d, k) == d # Never /\ k > d

\* the (k+1)-th call of deadline_expired in an invocation with deadline d
deadline_expired(d, k) == d # Never /\ k >= d

Last(seq) == seq[Len(seq)]

NonZero(row) == row.grid # 0 \/ row.solar # 0 \/ row.home # 0

\* datetime.fromisoformat(row["timestamp"]) raises ValueError
unparseable(row) == ~row.valid

\* "order by id asc limit 1" on the target table: its oldest row
get_last_aggregate_timestamp_oldest_row(r, src, tgt) ==
    IF tgt # <<>> THEN <<tgt[1].ts>>
    ELSE IF src # <<>> THEN <<time_slot(r, src[1].ts)>>
    ELSE <<>>

\* the target table is not consulted
get_last_aggregate_timestamp_from_source(r, src, tgt) ==
    IF src # <<>> THEN <<time_slot(r, src[1].ts)>> ELSE <<>>

\* the timestamp of the first source row is taken as it is
get_last_aggregate_timestamp_unfloored(r, src, tgt) ==
    IF tgt # <<>> THEN <<Last(tgt).ts>>
    ELSE IF src # <<>> THEN <<src[1].ts>>
    ELSE <<>>

\* "SELECT * from {self.table} order by id desc limit 1", else
\* "SELECT * from {self.source_table} order by id asc limit 1" through time_slot;
\* None is <<>>, a timestamp t is <<t>>
get_last_aggregate_timestamp(r, src, tgt) ==
    IF tgt # <<>> THEN <<Last(tgt).ts>>
    ELSE IF src # <<>> THEN <<time_slot(r, src[1].ts)>>
    ELSE <<>>

\* the pass starts two slots on
first_slot_skipping_one(r, last_aggregate_timestamp) ==
    time_slot_increment(r, last_aggregate_timestamp, 2)

\* the pass starts again at the slot it is handed
first_slot_not_advanced(r, last_aggregate_timestamp) ==
    last_aggregate_timestamp

\* "slot_start_timestamp = self.time_slot_increment(last_aggregate_timestamp)"
first_slot(r, last_aggregate_timestamp) ==
    time_slot_increment(r, last_aggregate_timestamp, 1)

\* time_slot_increment(slot_start_timestamp, 2000), looked up for the slot
\* starts the inputs can produce
QueryEndOf ==
    [r \in Resolutions |->
        [s \in {SlotStartOf[r][i] : i \in CursorIdx} |->
            time_slot_increment(r, s, WindowSlots)]]

query_end_timestamp(r, slot_start_timestamp) ==
    IF slot_start_timestamp \in DOMAIN QueryEndOf[r]
    THEN QueryEndOf[r][slot_start_timestamp]
    ELSE time_slot_increment(r, slot_start_timestamp, WindowSlots)

\* the query has no lower bound
query_window_from_the_start(src, from, to) ==
    SelectSeq(src, LAMBDA row : row.ts < to)

\* "WHERE timestamp >= ? and timestamp < ? order by id asc"
\* the rows of the window come newest first
query_window_newest_first(src, from, to) ==
    LET rows == SelectSeq(src, LAMBDA row : row.ts >= from /\ row.ts < to)
    IN  [i \in 1 .. Len(rows) |-> rows[Len(rows) + 1 - i]]

query_window(src, from, to) ==
    SelectSeq(src, LAMBDA row : row.ts >= from /\ row.ts < to)

\* the first non-zero row of the table, wherever it lies
query_next_data_anywhere(src, after) ==
    SelectSeq(src, LAMBDA row : NonZero(row))

\* "where timestamp > ? and (grid != 0 or solar != 0 or home != 0)
\*  order by id asc limit 1"
query_next_data(src, after) ==
    SelectSeq(src, LAMBDA row : row.ts > after /\ NonZero(row))

\* The while loop of get_source_data.  st: slot (slot_start_timestamp),
\* buf (source_data), k (deadline checks made), queries (window queries
\* made), scans (the slot_start_timestamp of every window query), expired (a
\* deadline check returned true), raised (IndexError of source_data[-1] on an
\* empty list), malformed (ValueError of fromisoformat), hang (the gap skip
\* sets slot_start_timestamp to a value a window query was already made for
\* and the deadline never expires: the loop never ends).
RECURSIVE get_source_data(_, _, _, _, _)

\* the loop body after the window query: st.buf is source_data
after_query(r, src, d, last_source_timestamp, st) ==
    IF st.buf = <<>> THEN [st EXCEPT !.raised = TRUE]
    ELSE IF unparseable(Last(st.buf)) THEN [st EXCEPT !.malformed = TRUE]
    ELSE IF Last(st.buf).ts >= time_slot_increment(r, st.slot, 1) THEN st
    ELSE IF Last(st.buf).ts >= last_source_timestamp THEN st
    ELSE LET Skip(more) ==
                 IF more = <<>> THEN st
                 ELSE IF unparseable(more[1])
                 THEN [st EXCEPT !.malformed = TRUE]
                 ELSE IF d = Never
                         /\ \E j \in 1 .. Len(st.scans) :
                                st.scans[j] = time_slot(r, more[1].ts)
                 THEN [st EXCEPT !.hang = TRUE]
                 ELSE get_source_data(r, src, d, last_source_timestamp,
                          [st EXCEPT !.slot = time_slot(r, more[1].ts)])
         IN  Skip(query_next_data(src, time_slot_increment(r, st.slot, 1)))

get_source_data(r, src, d, last_source_timestamp, st) ==
    IF deadline_expired(d, st.k)
    THEN [st EXCEPT !.k = @ + 1, !.expired = TRUE]
    ELSE after_query(r, src, d, last_source_timestamp,
             [st EXCEPT !.k = @ + 1, !.queries = @ + 1,
                        !.scans = Append(@, st.slot),
                        !.buf = @ \o query_window(src, st.slot,
                                         query_end_timestamp(r, st.slot))])

\* grid exports are summed like imports
accumulate_grid_unclipped(grid, row) == grid + row.grid

\* "if row['grid'] > 0: grid += row['grid']"
accumulate_grid(grid, row) == IF row.grid > 0 THEN grid + row.grid ELSE grid

\* rows without a grid import are left out of num_samples
RECURSIVE slot_totals_counting_imports(_, _)
slot_totals_counting_imports(rows, n) ==
    IF n = 0 THEN <<0, 0, 0, 0>>
    ELSE LET t == slot_totals_counting_imports(rows, n - 1)
         IN  <<accumulate_grid(t[1], rows[n]), t[2] + rows[n].solar,
               t[3] + rows[n].home,
               IF rows[n].grid > 0 THEN t[4] + 1 ELSE t[4]>>

\* The loop "for row in slot_rows" of process_aggregation: the sums
\* <<grid, solar, home, num_samples>> over rows[1..n]
RECURSIVE slot_totals(_, _)
slot_totals(rows, n) ==
    IF n = 0 THEN <<0, 0, 0, 0>>
    ELSE LET t == slot_totals(rows, n - 1)
         IN  <<accumulate_grid(t[1], rows[n]), t[2] + rows[n].solar,
               t[3] + rows[n].home, t[4] + 1>>

\* a row is stored for every slot that holds a sample
have_data_any_sample(t) == t[4] > 0

\* a row is stored for every slot with a non-zero sum
have_data_non_zero(t) == t[1] # 0 \/ t[2] # 0 \/ t[3] # 0

\* "if grid > 0.0 or solar > 0.0 or home > 0.0"
have_data(t) == t[1] > 0 \/ t[2] > 0 \/ t[3] > 0

\* the dict appended to aggregate_rows
aggregate_row(r, slot_start_timestamp, t) ==
    [ts    |-> slot_start_timestamp,
     grid  |-> convert_units(r, t[1], t[4]),
     solar |-> convert_units(r, t[2], t[4]),
     home  |-> convert_units(r, t[3], t[4])]

\* the slot of the newest fetched row is processed too
more_slots_inclusive(r, slot_start_timestamp, source_data) ==
    slot_start_timestamp <= time_slot(r, Last(source_data).ts)

\* "slot_start_timestamp < self.time_slot(... source_data[-1]["timestamp"])"
more_slots(r, slot_start_timestamp, source_data) ==
    slot_start_timestamp < time_slot(r, Last(source_data).ts)

\* "row for row in source_data if ... > slot_start_timestamp and
\*  (row["grid"] != 0 or row["solar"] != 0 or row["home"] != 0)"
later_data(source_data, slot_start_timestamp) ==
    SelectSeq(source_data,
        LAMBDA row : row.ts > slot_start_timestamp /\ NonZero(row))

\* slot_end_timestamp at the end of the loop body: t are the slot's totals,
\* later the rows of the skip search
next_slot(r, slot_start_timestamp, t, later) ==
    IF have_data(t) THEN time_slot_increment(r, slot_start_timestamp, 1)
    ELSE IF later # <<>> THEN time_slot(r, later[1].ts)
    ELSE time_slot_increment(r, slot_start_timestamp, 1)

\* The while loop of process_aggregation.  st: slot (slot_start_timestamp),
\* rows (aggregate_rows), slots (the slot starts the body ran for), samples
\* (num_samples of every slot convert_units was called for), k
\* (deadline checks made), expired, hang (the body leaves every local as it
\* found it and the deadline never expires: the loop never ends), malformed
\* (ValueError of fromisoformat).
RECURSIVE slot_loop(_, _, _, _)

slot_body(r, d, source_data, st, t, next) ==
    LET Continue(ran) ==
            IF next = st.slot /\ d = Never THEN [ran EXCEPT !.hang = TRUE]
            ELSE slot_loop(r, d, source_data, [ran EXCEPT !.slot = next])
    IN  Continue([st EXCEPT !.k = @ + 1,
                            !.slots = Append(@, st.slot),
                            !.rows = IF have_data(t)
                                     THEN Append(@, aggregate_row(r, st.slot, t))
                                     ELSE @,
                            !.samples = IF have_data(t)
                                        THEN Append(@, t[4]) ELSE @])

slot_loop(r, d, source_data, st) ==
    IF source_data = <<>> THEN st
    ELSE IF unparseable(Last(source_data)) THEN [st EXCEPT !.malformed = TRUE]
    ELSE IF ~more_slots(r, st.slot, source_data) THEN st
    ELSE IF deadline_expired(d, st.k)
    THEN [st EXCEPT !.k = @ + 1, !.expired = TRUE]
    ELSE IF \E i \in 1 .. Len(source_data) : unparseable(source_data[i])
    THEN [st EXCEPT !.k = @ + 1, !.malformed = TRUE]
    ELSE
      LET Body(t) ==
              slot_body(r, d, source_data, st, t,
                  next_slot(r, st.slot, t, later_data(source_data, st.slot)))
          Totals(slot_rows) == Body(slot_totals(slot_rows, Len(slot_rows)))
      IN  Totals(query_window(source_data, st.slot,
                     time_slot_increment(r, st.slot, 1)))

Ids(rows) == [i \in 1 .. Len(rows) |-> rows[i].id]

\* "for row in cur.execute(... order by id desc limit 1):
\*      last_source_timestamp = ..."; None is <<>>
last_source_timestamp_of(src) ==
    IF src = <<>> THEN <<>> ELSE <<Last(src).ts>>

\* the wrong timestamp is tested against None
nothing_to_do_by_cursor(last_aggregate_timestamp, last_source_timestamp) ==
    last_aggregate_timestamp = <<>>

\* "if last_source_timestamp is None: ... return"
nothing_to_do(last_aggregate_timestamp, last_source_timestamp) ==
    last_source_timestamp = <<>>

\* The outcome of one call process_aggregation(deadline): status is
\* "nosource" (returned at "No source data found"), "returned", "raised"
\* (the IndexError leaves the call), "malformed" (the ValueError of
\* fromisoformat leaves the call), "hang" (the slot loop never ends) or
\* "stuck" (the scan loop never ends); rows is the batch the call inserts.
process_aggregation(r, src, tgt, d) ==
    LET idle == [status |-> "nosource", cursor |-> <<>>, buf |-> <<>>,
                 slots |-> <<>>, rows |-> <<>>, checks |-> 0, queries |-> 0,
                 scans |-> <<>>, samples |-> <<>>, expired |-> FALSE,
                 scan_expired |-> FALSE]
        Outcome(slot_start_timestamp, scan, loop) ==
            IF scan.raised \/ scan.malformed \/ scan.hang
            THEN [idle EXCEPT !.status = IF scan.raised THEN "raised"
                                         ELSE IF scan.hang THEN "stuck"
                                         ELSE "malformed",
                              !.scans = scan.scans,
                              !.scan_expired = scan.expired,
                              !.cursor = <<slot_start_timestamp>>,
                              !.buf = Ids(scan.buf), !.checks = scan.k,
                              !.queries = scan.queries,
                              !.expired = scan.expired]
            ELSE [status  |-> IF loop.malformed THEN "malformed"
                              ELSE IF loop.hang THEN "hang"
                              ELSE "returned",
                  cursor  |-> <<slot_start_timestamp>>,
                  buf     |-> Ids(scan.buf),
                  slots   |-> loop.slots,
                  rows    |-> loop.rows,
                  checks  |-> loop.k,
                  queries |-> scan.queries,
                  scans   |-> scan.scans,
                  samples |-> loop.samples,
                  expired |-> loop.expired,
                  scan_expired |-> scan.expired]
        Slots(slot_start_timestamp, scan) ==
            Outcome(slot_start_timestamp, scan,
                IF scan.raised \/ scan.malformed \/ scan.hang THEN scan
                ELSE slot_loop(r, d, scan.buf,
                         [slot |-> slot_start_timestamp, rows |-> <<>>,
                          slots |-> <<>>, samples |-> <<>>, k |-> scan.k,
                          expired |-> scan.expired, hang |-> FALSE,
                          malformed |-> FALSE]))
        Scan(slot_start_timestamp) ==
            Slots(slot_start_timestamp,
                get_source_data(r, src, d, Last(src).ts,
                    [slot |-> slot_start_timestamp, buf |-> <<>>, k |-> 0,
                     queries |-> 0, scans |-> <<>>, expired |-> FALSE,
                     raised |-> FALSE, malformed |-> FALSE,
                     hang |-> FALSE]))
    IN
    IF tgt = <<>> /\ src # <<>> /\ unparseable(src[1])
    THEN [idle EXCEPT !.status = "malformed"]
    ELSE IF src # <<>> /\ unparseable(Last(src))
    THEN [idle EXCEPT !.status = "malformed"]
    ELSE IF nothing_to_do(get_last_aggregate_timestamp(r, src, tgt),
                          last_source_timestamp_of(src))
    THEN idle
    ELSE Scan(first_slot(r, get_last_aggregate_timestamp(r, src, tgt)[1]))

\* What the caller gets from a call with this outcome: the bare "return" of
\* the no-source path and the end of the function body both give None; a call
\* that raises or never ends gives nothing.
return_value(outcome) ==
    IF outcome.status \in {"nosource", "returned"} THEN <<"None">> ELSE <<>>

\* the batch of a call stopped by its deadline is dropped
table_after_unless_expired(tgt, outcome) ==
    IF outcome.status = "returned" /\ ~outcome.expired
    THEN tgt \o outcome.rows ELSE tgt

\* the batch is written over the last row of the table
table_after_over_last_row(tgt, outcome) ==
    IF outcome.status = "returned" /\ outcome.rows # <<>>
    THEN SubSeq(tgt, 1, Len(tgt) - 1) \o outcome.rows ELSE tgt

\* "with self.sqlcon: self.sqlcon.executemany(INSERT ...)": the table after
\* the call
table_after(tgt, outcome) ==
    IF outcome.status = "returned" THEN tgt \o outcome.rows ELSE tgt

\* the rows a pass fetched are pruned from the source table
source_after_pruned(src, outcome) ==
    SelectSeq(src,
        LAMBDA row : \A i \in 1 .. Len(outcome.buf) : outcome.buf[i] # row.id)

\* The source table after the call: every statement of the engine on
\* self.source_table is a SELECT.
source_after(src, outcome) == src

\* the statements of the batch take effect one by one
insert_interrupted_autocommit(tgt, rows, n) == tgt \o SubSeq(rows, 1, n)

\* "with self.sqlcon: self.sqlcon.executemany(INSERT ...)" when the block is
\* left by an exception, or the process dies, after n of the rows were
\* inserted: the connection opens a transaction before the first INSERT and
\* the context manager commits only when the block ends normally, otherwise
\* the transaction is rolled back
insert_interrupted(tgt, rows, n) == tgt

-----------------------------------------------------------------------------
(* The state machine *)

\* What a call keeps of the call before it when no row was stored in
\* between.  kind is "complete" (it returned, its deadline did not expire and
\* it had fetched the newest source row), "chunk" (the same, but the newest
\* source row was not fetched), "partial" (it returned at its deadline) or
\* "failed" (it was interrupted) or "other"; added is the number of rows it
\* left in the table, written the number of rows it had inserted when it was
\* interrupted.
NoPrev == [kind |-> "none", added |-> 0, written |-> 0, single |-> <<>>]

\* batch is the length of aggregate_rows at the end of the call, written the
\* number of INSERTs executed
NoCall == [status |-> "none", before |-> 0, cursor |-> <<>>, buf |-> <<>>,
           slots |-> <<>>, checks |-> 0, queries |-> 0, scans |-> <<>>,
           expired |-> FALSE, scan_expired |-> FALSE, deadline |-> Never,
           samples |-> <<>>,
           batch |-> 0, written |-> 0, single |-> <<>>, prev |-> NoPrev]

\* the call recorded in last fetched the newest source row
ReachedNewest == last.buf # <<>> /\ Last(last.buf) = Len(source)

\* last, as the next call records it
PrevOf ==
    IF last.status = "none" THEN NoPrev
    ELSE [kind   |-> IF last.status = "failed" THEN "failed"
                     ELSE IF last.status # "returned" THEN "other"
                     ELSE IF last.expired THEN "partial"
                     ELSE IF ReachedNewest THEN "complete"
                     ELSE "chunk",
          added  |-> Len(target) - last.before,
          written |-> IF last.status = "failed" THEN last.written ELSE 0,
          single |-> last.single]

\* the database is not observed as a whole
NoDb == [samples |-> <<>>, daily |-> <<>>,
         tables |-> [r \in Resolutions |-> <<>>],
         ran |-> <<>>, stopped |-> FALSE]

Init ==
    /\ res \in Resolutions
    /\ source = <<>>
    /\ target = <<>>
    /\ last = NoCall
    /\ db = NoDb

\* A collaborator stores a row: process_realtime_data inserts a sample
\* stamped datetime.now(), process_chart_data a day newer than the last one.
\* Nothing runs while a call of process_aggregation is stuck in its loop.
StoreRow(pos, v, valid) ==
    LET ts == TimeOf(res, pos)
    IN  /\ source # <<>> => ts > Last(source).ts
        /\ source' = Append(source,
               [id |-> Len(source) + 1, ts |-> ts, valid |-> valid,
                grid |-> v[1], solar |-> v[2], home |-> v[3]])

AppendSource ==
    /\ last.status # "hang"
    /\ Len(source) < MaxSrc
    /\ \E in \in Inputs : StoreRow(in[1], in[2], TRUE)
    /\ last' = NoCall
    /\ UNCHANGED <<res, target, db>>

\* One call of process_aggregation(deadline).  last.single records, for a
\* call stopped by its deadline, the table a call with a deadline that never
\* expires would have left (<<>> if that call would not end); last.prev
\* records the call before it.
ProcessAggregation ==
    /\ last.status # "hang"
    /\ \E u \in {process_aggregation(res, source, target, Never)} :
       \E d \in {x \in Deadlines :
                    x = Never \/ u.status = "hang" \/ x < u.checks} :
       \E o \in {IF d = Never THEN u
                 ELSE process_aggregation(res, source, target, d)} :
           /\ target' = table_after(target, o)
           /\ source' = source_after(source, o)
           /\ last' = [status |-> o.status, before |-> Len(target),
                       cursor |-> o.cursor, buf |-> o.buf,
                       slots |-> o.slots, checks |-> o.checks,
                       queries |-> o.queries, scans |-> o.scans,
                       expired |-> o.expired,
                       scan_expired |-> o.scan_expired, deadline |-> d,
                       samples |-> o.samples,
                       batch |-> Len(o.rows),
                       written |-> IF o.status = "returned"
                                   THEN Len(o.rows) ELSE 0,
                       single |-> IF o.expired /\ u.status # "hang"
                                  THEN <<table_after(target, u)>>
                                  ELSE <<>>,
                       prev |-> PrevOf]
    /\ UNCHANGED <<res, db>>

Next == AppendSource \/ ProcessAggregation

Spec == Init /\ [][Next]_vars

-----------------------------------------------------------------------------
(* Second specification: malformed rows, interrupted calls and the history  *)
(* command, over fewer inputs                                               *)

\* <<position, values, valid>>: rows with production in four adjacent slots,
\* written by any writer of the table
OpsInputs ==
    ({<<i, 0>> : i \in 0 .. 3} \cup {<<1, 1>>}) \X {<<100, 50, -40>>} \X BOOLEAN

StoreAnyRow ==
    /\ last.status # "hang"
    /\ Len(source) < MaxSrc
    /\ \E in \in OpsInputs : StoreRow(in[1], in[2], in[3])
    /\ last' = NoCall
    /\ UNCHANGED <<res, target, db>>

\* A call of process_aggregation that reaches its batch insert and is
\* interrupted there, by an exception of the INSERT or by the death of the
\* process, after n rows were inserted.
InterruptedAggregation ==
    /\ last.status # "hang"
    /\ \E d \in Deadlines :
          LET Interrupt(o) ==
                  /\ o.status = "returned"
                  /\ source' = source_after(source, o)
                  /\ \E n \in 0 .. Len(o.rows) :
                        /\ target' = insert_interrupted(target, o.rows, n)
                        /\ last' = [status |-> "failed",
                                    before |-> Len(target),
                                    cursor |-> o.cursor, buf |-> o.buf,
                                    slots |-> o.slots, checks |-> o.checks,
                                    queries |-> o.queries,
                                    expired |-> o.expired,
                                    batch |-> Len(o.rows), written |-> n,
                                    single |-> <<>>, prev |-> PrevOf]
          IN  Interrupt(process_aggregation(res, source, target, d))
    /\ UNCHANGED <<res, db>>

\* history(): "DELETE FROM daily", before the table is filled again
DeleteDaily ==
    /\ last.status # "hang"
    /\ source_table(res) = "daily"
    /\ source # <<>>
    /\ source' = <<>>
    /\ last' = NoCall
    /\ UNCHANGED <<res, target, db>>

NextOps ==
    StoreAnyRow \/ ProcessAggregation \/ InterruptedAggregation \/ DeleteDaily

SpecOps == Init /\ [][NextOps]_vars

-----------------------------------------------------------------------------
(* Third specification: the four passes of aggregate_data on one database   *)

\* most rows of the samples table and of the daily table
MaxDbRows == 3

\* samples in four 5-minute slots of one hour and in four hours
SampleTimes ==
    {TimeOf("fiveminute", <<i, 0>>) : i \in 0 .. 3}
        \cup {TimeOf("hourly", <<i, 0>>) : i \in 0 .. 3}

\* days starting four weeks and four months
DailyTimes ==
    {TimeOf("weekly", <<i, 0>>) : i \in 0 .. 3}
        \cup {TimeOf("monthly", <<i, 0>>) : i \in 0 .. 3}

\* the time sequences of at most MaxDbRows increasing times
TimesOver(times) ==
    {seq \in UNION {[1 .. n -> times] : n \in 0 .. MaxDbRows} :
        \A i \in 1 .. Len(seq) - 1 : seq[i] < seq[i + 1]}

\* a source table with production at these times
RowsAt(seq) ==
    [i \in 1 .. Len(seq) |->
        [id |-> i, ts |-> seq[i], valid |-> TRUE,
         grid |-> 100, solar |-> 50, home |-> 0 - 40]]

\* the rows of self.source_table in database d
source_rows(r, d) == IF source_table(r) = "samples" THEN d.samples ELSE d.daily

\* the order of the passes in aggregate_data
PassOrder == <<"fiveminute", "hourly", "weekly", "monthly">>

\* an exception leaves process_aggregation
raises(outcome) == outcome.status \in {"raised", "malformed"}

\* aggregate_data from its i-th pass on, with a deadline that does not
\* expire: the passes run one after the other, and an exception of one of
\* them leaves aggregate_data
RECURSIVE aggregate_data(_, _, _)

after_pass(d, tables, i, outcome) ==
    IF raises(outcome) THEN tables
    ELSE aggregate_data(d,
             [tables EXCEPT ![PassOrder[i]] = table_after(@, outcome)], i + 1)

aggregate_data(d, tables, i) ==
    IF i > Len(PassOrder) THEN tables
    ELSE after_pass(d, tables, i,
             process_aggregation(PassOrder[i], source_rows(PassOrder[i], d),
                                 tables[PassOrder[i]], Never))

InitOrder ==
    /\ res = "fiveminute"
    /\ source = <<>>
    /\ target = <<>>
    /\ last = NoCall
    /\ db \in {[NoDb EXCEPT !.samples = RowsAt(s), !.daily = RowsAt(dl)] :
                  s \in TimesOver(SampleTimes), dl \in TimesOver(DailyTimes)}

\* The next pass of an invocation that runs the four passes in some order;
\* an exception of a pass ends the invocation.
RunPass ==
    /\ ~db.stopped
    /\ \E r \in Resolutions \ {db.ran[i] : i \in 1 .. Len(db.ran)} :
          LET Ran(o) ==
                  db' = [db EXCEPT !.tables[r] = table_after(@, o),
                                   !.ran = Append(@, r),
                                   !.stopped = raises(o)]
          IN  Ran(process_aggregation(r, source_rows(r, db), db.tables[r],
                                      Never))
    /\ UNCHANGED <<res, source, target, last>>

NextOrder == RunPass

SpecOrder == InitOrder /\ [][NextOrder]_vars

-----------------------------------------------------------------------------
(* Fourth specification: the engine invoked again and again on a source     *)
(* table that no longer changes                                             *)

\* the inputs of the adjacent slots
NearInputs == {in \in Inputs : in[1][1] <= 3}

\* the source tables of at most MaxDbRows rows at increasing times
FixedSources(r) ==
    {seq \in UNION {[1 .. n -> NearInputs] : n \in 0 .. MaxDbRows} :
        \A i \in 1 .. Len(seq) - 1 :
            TimeOf(r, seq[i][1]) < TimeOf(r, seq[i + 1][1])}

SourceOf(r, seq) ==
    [i \in 1 .. Len(seq) |->
        [id |-> i, ts |-> TimeOf(r, seq[i][1]), valid |-> TRUE,
         grid |-> seq[i][2][1], solar |-> seq[i][2][2],
         home |-> seq[i][2][3]]]

InitProgress ==
    /\ res \in Resolutions
    /\ source \in {SourceOf(res, seq) : seq \in FixedSources(res)}
    /\ target = <<>>
    /\ last = NoCall
    /\ db = NoDb

\* a call whose deadline allows at least one iteration of the slot loop
ProgressingAggregation ==
    /\ ProcessAggregation
    /\ last'.expired => last'.slots # <<>>

NextProgress == ProgressingAggregation

\* the main loop calls aggregate_data after every sample
SpecProgress ==
    InitProgress /\ [][NextProgress]_vars /\ WF_vars(ProgressingAggregation)

-----------------------------------------------------------------------------
(* Fifth specification: the methods of the four aggregator classes, applied *)
(* to timestamps and sums                                                   *)

\* the days before 2024-01-01 and from it on that timestamps are drawn from
DaysBefore == 40
DaysAfter == 400

\* most samples a converted sum is taken over
MaxSamples == 10

\* most methods applied one after the other
MaxOps == 3

\* minutes of the day: around a five-minute and an hour boundary, midday, the
\* last slot and the last minute of the day
MinutesOfDay == {0, 1, 4, 5, 59, 60, 719, 1435, 1439}

Timestamps ==
    {d * Day + m : d \in (0 - DaysBefore) .. DaysAfter, m \in MinutesOfDay}

Sums == {0 - 40, 0, 7, 42, 100, 600}

\* the increments time_slot_increment is called with: the default, a few
\* slots, a year of months and one more
Increments == {1, 2, 12, 13}

\* last: op is the method applied, arg its timestamp argument, increment its
\* increment argument and dt its result (or the timestamp drawn), out the
\* result of convert_units(value, n), which takes no timestamp
InitMethods ==
    /\ res \in Resolutions
    /\ source = <<>>
    /\ target = <<>>
    /\ db = NoDb
    /\ \E t \in Timestamps :
           last = [op |-> "none", arg |-> t, dt |-> t, increment |-> 0,
                   value |-> 0, n |-> 0, out |-> <<0, 1>>, ops |-> 0]

\* dt = self.time_slot(dt)
TimeSlot ==
    /\ last.ops < MaxOps
    /\ last' = [last EXCEPT !.op = "time_slot", !.arg = last.dt,
                            !.increment = 0,
                            !.dt = time_slot(res, last.dt), !.ops = @ + 1]
    /\ UNCHANGED <<res, source, target, db>>

\* dt = self.time_slot_increment(dt, increment)
TimeSlotIncrement ==
    /\ last.ops < MaxOps
    /\ \E increment \in Increments :
           last' = [last EXCEPT !.op = "time_slot_increment",
                       !.arg = last.dt, !.increment = increment,
                       !.dt = time_slot_increment(res, last.dt, increment),
                       !.ops = @ + 1]
    /\ UNCHANGED <<res, source, target, db>>

\* self.convert_units(value, num_samples)
ConvertUnits ==
    /\ last.ops = 0
    /\ \E value \in Sums : \E n \in 0 .. MaxSamples :
           last' = [op |-> "convert_units", arg |-> 0, dt |-> 0,
                    increment |-> 0, value |-> value, n |-> n,
                    out |-> convert_units(res, value, n), ops |-> MaxOps]
    /\ UNCHANGED <<res, source, target, db>>

NextMethods == TimeSlot \/ TimeSlotIncrement \/ ConvertUnits

SpecMethods == InitMethods /\ [][NextMethods]_vars

-----------------------------------------------------------------------------
(* Sixth specification: the --history command                               *)
(*                                                                          *)
(* A date is <<m, d>>: day d of the m-th month after January 2024.  The     *)
(* daily table holds the dates of its rows.  last holds the locals of       *)
(* history(): pc, process_date, yesterday, last_dailydata_timestamp (None   *)
(* is <<>>) and charted, the months get_chart was asked for.                *)

\* the months after January 2024 that dates are drawn from
MaxMonths == 4

\* days of the month of the install date, of yesterday and of the tuples of
\* a chart
ChartDays == {1, 15, 31}

DaysIn(m) ==
    LET year  == 2024 + (m \div 12)
        month == (m % 12) + 1
    IN  IF month = 2
        THEN IF year % 4 = 0 /\ (year % 100 # 0 \/ year % 400 = 0)
             THEN 29 ELSE 28
        ELSE IF month \in {4, 6, 9, 11} THEN 30 ELSE 31

Dates == {dt \in (0 .. MaxMonths) \X ChartDays : dt[2] <= DaysIn(dt[1])}

\* a < b on dates
Before(a, b) == a[1] < b[1] \/ (a[1] = b[1] /\ a[2] < b[2])

\* a timestamp equal to the other one counts as newer
timestamp_not_older_than(timestamp, other_timestamp) ==
    other_timestamp = <<>> \/ ~Before(timestamp, other_timestamp[1])

\* "other_timestamp is None or timestamp > other_timestamp"
timestamp_newer_than(timestamp, other_timestamp) ==
    other_timestamp = <<>> \/ Before(other_timestamp[1], timestamp)

\* "timestamp >= today", today being the day after yesterday
timestamp_newer_than_or_equal_to_today(timestamp, yesterday) ==
    Before(yesterday, timestamp)

is_new_timestamp(ts_datetime, last_dailydata_timestamp, yesterday) ==
    /\ timestamp_newer_than(ts_datetime, last_dailydata_timestamp)
    /\ ~timestamp_newer_than_or_equal_to_today(ts_datetime, yesterday)

\* the tuples of the chart of the month of chartday, in timestamp order
get_chart(chartday) ==
    LET days == {d \in ChartDays : d <= DaysIn(chartday[1])}
        Sorted(n) == CHOOSE seq \in [1 .. n -> days] :
                         \A i \in 1 .. n - 1 : seq[i] < seq[i + 1]
    IN  [i \in 1 .. Cardinality(days) |->
            <<chartday[1], Sorted(Cardinality(days))[i]>>]

\* the timestamps are processed in the order the chart gives them
unsorted(timestamps) == timestamps

\* "sorted(daily_data_dict.keys(), key=...)": the timestamps of the chart,
\* each once, in ascending order
RECURSIVE sorted(_)
sorted(timestamps) ==
    IF timestamps = <<>> THEN <<>>
    ELSE LET first == CHOOSE i \in 1 .. Len(timestamps) :
                          \A j \in 1 .. Len(timestamps) :
                              ~Before(timestamps[j], timestamps[i])
         IN  <<timestamps[first]>>
                 \o sorted(SelectSeq(timestamps,
                               LAMBDA ts : ts # timestamps[first]))

\* process_chart_data: the daily table and last_dailydata_timestamp after
\* the call, and the value returned: the function has a bare "return" and
\* otherwise ends without one
process_chart_data(chart, daily, last_dailydata_timestamp, yesterday) ==
    LET new == SelectSeq(sorted(chart),
                   LAMBDA ts : is_new_timestamp(ts, last_dailydata_timestamp,
                                                yesterday))
    IN  [daily  |-> daily \o new,
         last_dailydata_timestamp |->
             IF new = <<>> THEN last_dailydata_timestamp
             ELSE <<new[Len(new)]>>,
         result |-> "None"]

\* "not value"
Not(value) == value \in {"None", "False"}

\* "process_date.replace(month=new_month, year=new_year)": <<>> where the
\* day does not exist in the new month (ValueError)
next_month(process_date) ==
    IF process_date[2] <= DaysIn(process_date[1] + 1)
    THEN <<<<process_date[1] + 1, process_date[2]>>>>
    ELSE <<>>

InitHistory ==
    /\ res = "monthly"
    /\ source = <<>>
    /\ target = <<>>
    /\ \E old \in {<<>>} \cup {<<dt>> : dt \in Dates} :
           db = [NoDb EXCEPT !.daily = old]
    /\ \E install \in Dates : \E yesterday \in Dates :
           last = [pc |-> "start", process_date |-> install,
                   install |-> install, yesterday |-> yesterday,
                   last_dailydata_timestamp |-> <<>>, charted |-> <<>>]

\* history() up to the loop: DELETE FROM daily, login
HistoryLogin ==
    /\ last.pc = "start"
    /\ db' = [db EXCEPT !.daily = <<>>]
    /\ \E login \in BOOLEAN :
           last' = [last EXCEPT !.pc = IF login THEN "loop" ELSE "done"]
    /\ UNCHANGED <<res, source, target>>

\* One iteration of "while True".  A chart that could not be fetched is None
\* and process_chart_data raises TypeError on it.
HistoryMonth ==
    /\ last.pc = "loop"
    /\ \E fetched \in BOOLEAN :
         IF ~fetched
         THEN /\ last' = [last EXCEPT !.pc = "raised",
                                      !.charted = Append(@, last.process_date[1])]
              /\ db' = db
         ELSE \E r \in {process_chart_data(get_chart(last.process_date),
                             db.daily, last.last_dailydata_timestamp,
                             last.yesterday)} :
              /\ db' = [db EXCEPT !.daily = r.daily]
              /\ last' =
                   [last EXCEPT
                      !.charted = Append(@, last.process_date[1]),
                      !.last_dailydata_timestamp = r.last_dailydata_timestamp,
                      !.process_date =
                          IF Not(r.result) \/ next_month(@) = <<>> THEN @
                          ELSE next_month(@)[1],
                      !.pc =
                          IF Not(r.result) THEN "yesterday"
                          ELSE IF next_month(last.process_date) = <<>>
                          THEN "raised"
                          ELSE IF Before(last.yesterday,
                                         next_month(last.process_date)[1])
                          THEN "yesterday"
                          ELSE "loop"]
    /\ UNCHANGED <<res, source, target>>

\* "Process yesterday's data"
HistoryYesterday ==
    /\ last.pc = "yesterday"
    /\ \E fetched \in BOOLEAN :
         IF ~fetched
         THEN /\ last' = [last EXCEPT !.pc = "raised",
                                      !.charted = Append(@, last.yesterday[1])]
              /\ db' = db
         ELSE \E r \in {process_chart_data(get_chart(last.yesterday),
                             db.daily, last.last_dailydata_timestamp,
                             last.yesterday)} :
              /\ db' = [db EXCEPT !.daily = r.daily]
              /\ last' =
                   [last EXCEPT
                      !.charted = Append(@, last.yesterday[1]),
                      !.last_dailydata_timestamp = r.last_dailydata_timestamp,
                      !.pc = "done"]
    /\ UNCHANGED <<res, source, target>>

NextHistory == HistoryLogin \/ HistoryMonth \/ HistoryYesterday

SpecHistory == InitHistory /\ [][NextHistory]_vars

-----------------------------------------------------------------------------
(* Idempotence and resumability *)

\* the call recorded in last ran right after another call, which returned
\* without its deadline expiring
SecondRun == last.prev.kind \in {"complete", "chunk"}

\* C1, as stated: if process_aggregation is run and then run again with no
\* source row added in between, the second run appends no row to the target
\* table (both runs with a deadline that does not expire).
C1_SecondRunAppendsNothing ==
    (SecondRun /\ last.status = "returned" /\ ~last.expired)
        => Len(target) = last.before

\* C1, amended: if process_aggregation returns without its deadline expiring
\* and with the newest source row fetched by its scan, and is then run again
\* with no source row added in between, the second run appends no row to the
\* target table, whatever its deadline.
C1_CaughtUpRunAppendsNothing ==
    last.prev.kind = "complete" => Len(target) = last.before

\* a run that inserted rows and fetched the newest source row is followed by
\* a run that returns before its deadline
C1_Witness ==
    /\ last.prev.kind = "complete"
    /\ last.prev.added > 0
    /\ last.status = "returned"
    /\ ~last.expired

\* the source rows lie in slots [0..10), slot 0 holding the first of them
InTenSlots ==
    /\ source # <<>>
    /\ Last(source).ts <
           time_slot_increment(res, time_slot(res, source[1].ts), 10)

\* C2: with the source rows in slots [0..10), a run stopped by its deadline
\* followed by a run whose deadline does not expire leaves the target table
\* as a single run with a deadline that never expires would have left it.
C2_ResumedRunEqualsSingleRun ==
    (/\ last.prev.kind = "partial"
     /\ last.prev.single # <<>>
     /\ InTenSlots
     /\ last.status \in {"returned", "raised"}
     /\ ~last.expired)
        => <<target>> = last.prev.single

\* the first run stored some of the rows, the second run the others
C2_Witness ==
    /\ last.prev.kind = "partial"
    /\ last.prev.added > 0
    /\ InTenSlots
    /\ last.status = "returned"
    /\ ~last.expired
    /\ Len(target) > last.before
    /\ <<target>> = last.prev.single

-----------------------------------------------------------------------------
(* Slot contents *)

\* the source rows with s <= timestamp < advance(s)
RowsOfSlot(s) ==
    SelectSeq(source,
        LAMBDA row : row.ts >= s /\ row.ts < time_slot_increment(res, s, 1))

Max(a, b) == IF a >= b THEN a ELSE b

\* <<sum of max(grid, 0), sum of solar, sum of home>> over rows[1..n]
RECURSIVE SumsOf(_, _)
SumsOf(rows, n) ==
    IF n = 0 THEN <<0, 0, 0>>
    ELSE LET t == SumsOf(rows, n - 1)
         IN  <<t[1] + Max(rows[n].grid, 0), t[2] + rows[n].solar,
               t[3] + rows[n].home>>

ConvertedSums(s, rows, sums) ==
    [ts    |-> s,
     grid  |-> convert_units(res, sums[1], Len(rows)),
     solar |-> convert_units(res, sums[2], Len(rows)),
     home  |-> convert_units(res, sums[3], Len(rows))]

SlotSums(s, rows) == ConvertedSums(s, rows, SumsOf(rows, Len(rows)))

\* C3: every row of the target table, for a slot starting at s, holds the
\* conversion of the sums over all source rows with s <= timestamp <
\* advance(s), grid summed as max(grid, 0), n being the number of those rows.
C3_RowHoldsSlotSums ==
    \A i \in 1 .. Len(target) :
        target[i] = SlotSums(target[i].ts, RowsOfSlot(target[i].ts))

\* a stored slot has two source rows, one of them exporting to the grid
C3_Witness ==
    \E i \in 1 .. Len(target) :
        /\ Len(RowsOfSlot(target[i].ts)) = 2
        /\ RowsOfSlot(target[i].ts)[2].grid < 0

\* the last call returned before its deadline and added nothing
CaughtUp ==
    /\ last.status = "returned"
    /\ ~last.expired
    /\ Len(target) = last.before

\* the slots that hold a source row with a non-zero value and end no later
\* than the newest source timestamp
NonEmptySlots ==
    {time_slot(res, source[j].ts) :
        j \in {k \in 1 .. Len(source) :
                 /\ NonZero(source[k])
                 /\ time_slot_increment(res, time_slot(res, source[k].ts), 1)
                        <= Last(source).ts}}

\* C4, as stated: once the engine has caught up, the target table holds
\* exactly one row for every slot that holds a non-zero source row and ends no
\* later than the newest source timestamp, the slot of the first source row
\* included.
C4_OneRowPerNonEmptySlot ==
    CaughtUp =>
        /\ {target[i].ts : i \in 1 .. Len(target)} = NonEmptySlots
        /\ Len(target) = Cardinality(NonEmptySlots)

\* the two samples of the end-to-end example, t0 the start of a slot
EndToEndSamples ==
    <<[id |-> 1, ts |-> TimeOf("fiveminute", <<1, 0>>), valid |-> TRUE,
       grid |-> 100, solar |-> 50, home |-> -40],
      [id |-> 2, ts |-> TimeOf("fiveminute", <<1, 1>>), valid |-> TRUE,
       grid |-> 0, solar |-> 60, home |-> -30]>>

\* C5, as stated: with an empty fiveminute table and the two samples,
\* process_aggregation with an unexpired deadline stores exactly one row, at
\* slot_start(t0), with grid 50, solar 55 and home -35.
C5_EndToEnd ==
    (/\ res = "fiveminute"
     /\ source = EndToEndSamples
     /\ last.status # "none"
     /\ last.before = 0
     /\ ~last.expired)
        => target = <<[ts    |-> time_slot("fiveminute", EndToEndSamples[1].ts),
                       grid  |-> <<50, 1>>,
                       solar |-> <<55, 1>>,
                       home  |-> <<0 - 35, 1>>]>>

\* non-zero samples at slot 0 and slot 1000 only
GapSamples ==
    /\ source_table(res) = "samples"
    /\ Len(source) = 2
    /\ source[1].ts = SlotStartOf[res][0] /\ NonZero(source[1])
    /\ source[2].ts = SlotStartOf[res][1000] /\ NonZero(source[2])

\* C6, as stated: with an empty target table and non-zero samples at slot 0
\* and slot 1000 only, the engine stores rows for slot 0 and slot 1000 and for
\* no other slot, and its loop does not visit the empty slots one by one.
C6_GapCrossed ==
    (/\ GapSamples
     /\ last.status = "returned"
     /\ last.before = 0
     /\ ~last.expired)
        => /\ [i \in 1 .. Len(target) |-> target[i].ts]
                  = <<SlotStartOf[res][0], SlotStartOf[res][1000]>>
           /\ Len(last.slots) <= 2

-----------------------------------------------------------------------------
(* Order of the target table and the cursor *)

\* C7: in every reachable state the rows of the target table are slot starts
\* strictly increasing in id order, so that no two rows share a slot.
C7_StrictlyIncreasing ==
    /\ \A i \in 1 .. Len(target) : time_slot(res, target[i].ts) = target[i].ts
    /\ \A i \in 1 .. Len(target) - 1 : target[i].ts < target[i + 1].ts

\* a call appended rows to rows of an earlier call
C7_Witness ==
    /\ last.before >= 1
    /\ Len(target) > last.before

\* the slot of the newest source row the last call fetched
NewestFetchedSlot == time_slot(res, source[Last(last.buf)].ts)

\* C8: no stored slot ends after the newest source timestamp, and a pass
\* neither processes nor stores the slot of the newest source row it fetched.
C8_NoOpenSlotStored ==
    /\ \A i \in 1 .. Len(target) :
           time_slot_increment(res, target[i].ts, 1) <= Last(source).ts
    /\ last.buf # <<>> =>
           /\ \A i \in 1 .. Len(last.slots) : last.slots[i] < NewestFetchedSlot
           /\ \A i \in last.before + 1 .. Len(target) :
                  target[i].ts < NewestFetchedSlot

\* a pass stored rows and left out the slot of the newest row it fetched,
\* which holds a non-zero value
C8_Witness ==
    /\ last.status = "returned"
    /\ Len(target) > last.before
    /\ NonZero(source[Last(last.buf)])

\* the call recorded in last got past "No source data found"
PassStarted == last.status \notin {"none", "nosource"}

\* C9, as stated: with an empty target table and at least one source row,
\* the first slot the pass processes is slot_start(first source row's
\* timestamp).
C9_BootstrapAtFirstSourceSlot ==
    (PassStarted /\ last.before = 0)
        => last.cursor = <<time_slot(res, source[1].ts)>>

\* C10: with at least one row in the target table the pass starts at
\* advance(slot_start(timestamp of the row with the highest id)), and it
\* neither processes nor stores a slot at or before that row's slot.
C10_ResumeAfterLastRow ==
    (PassStarted /\ last.before > 0) =>
        /\ last.cursor =
               <<time_slot_increment(res,
                     time_slot(res, target[last.before].ts), 1)>>
        /\ \A i \in 1 .. Len(last.slots) :
               last.slots[i] > target[last.before].ts
        /\ \A i \in last.before + 1 .. Len(target) :
               target[i].ts > target[last.before].ts

\* a pass resumed behind two stored rows and processed a slot
C10_Witness ==
    /\ PassStarted
    /\ last.before >= 2
    /\ last.slots # <<>>

-----------------------------------------------------------------------------
(* Failures *)

\* C11: a call interrupted at any point of its batch insert leaves in the
\* target table every row of its batch or none of them, and the call after it
\* starts at the slot after the last row present in the table.
C11_BatchAllOrNothing ==
    /\ last.status = "failed" =>
           Len(target) \in {last.before, last.before + last.batch}
    /\ (last.prev.kind = "failed" /\ last.cursor # <<>> /\ last.before > 0) =>
           last.cursor =
               <<time_slot_increment(res,
                     time_slot(res, target[last.before].ts), 1)>>

\* a call was interrupted after it had inserted a row behind the rows of the
\* table, and the call after it stored the batch
C11_Witness ==
    /\ last.prev.kind = "failed"
    /\ last.prev.written >= 1
    /\ last.before > 0
    /\ last.status = "returned"
    /\ Len(target) > last.before

\* the scan of the last call fetched a row with an unparseable timestamp
FetchedMalformedRow ==
    \E i \in 1 .. Len(last.buf) : unparseable(source[last.buf[i]])

\* C12, as stated: when a source row read by a pass has an unparseable
\* timestamp, process_aggregation raises to its caller and leaves the target
\* table as it was before the call.
C12_MalformedRowRaises ==
    (/\ last.status \notin {"none", "failed"}
     /\ ~last.expired
     /\ FetchedMalformedRow)
        => /\ last.status = "malformed"
           /\ Len(target) = last.before

\* the sums of the slot starting at s hold a positive value
SlotHasData(s) ==
    \E k \in 1 .. 3 : SumsOf(RowsOfSlot(s), Len(RowsOfSlot(s)))[k] > 0

RowsOfSlots(slots) ==
    [i \in 1 .. Len(slots) |-> SlotSums(slots[i], RowsOfSlot(slots[i]))]

\* the rows of the slots the last call completed
CompletedRows == RowsOfSlots(SelectSeq(last.slots, SlotHasData))

\* C13: a call whose deadline expires returns without raising, commits the
\* rows of the slots it completed, leaves the table ordered and correct, and
\* writes nothing when the deadline had expired at entry.
C13_DeadlineIsNormalStop ==
    last.expired =>
        /\ last.status = "returned"
        /\ target = SubSeq(target, 1, last.before) \o CompletedRows
        /\ C7_StrictlyIncreasing
        /\ C3_RowHoldsSlotSums
        /\ last.checks = 1 =>
               (last.queries = 0 /\ Len(target) = last.before)

\* a call stopped by its deadline stored the rows of the slots it completed
C13_Witness ==
    /\ last.expired
    /\ last.status = "returned"
    /\ Len(target) > last.before

\* C14, as stated: with an empty source table, and with an empty target
\* table and any non-empty source table, process_aggregation returns without
\* raising.
C14_BootstrapDoesNotRaise ==
    (last.status # "none" /\ last.before = 0) => last.status # "raised"

\* C15: a call on an empty source table returns at once: no deadline check,
\* no scan, no slot, nothing written, whatever the target table holds.
C15_NoSourceNoWork ==
    (last.status # "none" /\ source = <<>>) =>
        /\ last.status = "nosource"
        /\ last.checks = 0
        /\ last.queries = 0
        /\ last.slots = <<>>
        /\ Len(target) = last.before

\* the call found the source table emptied and rows in the target table
C15_Witness ==
    /\ last.status = "nosource"
    /\ target # <<>>

-----------------------------------------------------------------------------
(* Frame *)

\* C16: no call of process_aggregation, completed or interrupted, inserts,
\* updates or deletes a row of its source table.
C16_SourceReadOnly ==
    [][last'.status # "none" => source' = source]_vars

\* a call fetched several source rows and stored a batch
C16_Witness ==
    /\ last.status = "returned"
    /\ Len(last.buf) >= 2
    /\ last.batch >= 1

\* C17: every row of the target table stays in place and unchanged, and the
\* table changes only by the one batch a call appends when it returns, the
\* rows of the slots its loop completed.
C17_TargetAppendOnly ==
    /\ [](last.status = "returned" =>
             target = SubSeq(target, 1, last.before) \o CompletedRows)
    /\ [][/\ Len(target') >= Len(target)
          /\ SubSeq(target', 1, Len(target)) = target
          /\ target' # target =>
                 /\ last'.status = "returned"
                 /\ last'.before = Len(target)
                 /\ Len(target') = Len(target) + last'.batch]_vars

\* a call appended its batch behind the rows of the table
C17_Witness ==
    /\ last.status = "returned"
    /\ last.before >= 1
    /\ last.batch >= 1
    /\ Len(target) = last.before + last.batch

-----------------------------------------------------------------------------
(* The four resolutions *)

\* the invocation has ended: every pass ran, or one raised
InvocationEnded == db.stopped \/ Len(db.ran) = Len(PassOrder)

\* C18, as stated: running the four passes in any order, with a deadline that
\* does not expire, leaves the four target tables as the fixed order
\* fiveminute, hourly, weekly, monthly leaves them.
C18_AnyOrderAsFixedOrder ==
    InvocationEnded => db.tables = aggregate_data(db, NoDb.tables, 1)

-----------------------------------------------------------------------------
(* Progress *)

\* the last call ran the slot loop at least once, was stopped by its
\* deadline and stored nothing
StoppedEmptyHanded ==
    /\ last.status = "returned"
    /\ last.expired
    /\ last.slots # <<>>
    /\ last.batch = 0

\* a call made now with deadline d stores a row, or runs the slot loop up to
\* the slot of the newest source row, or raises
Advances(d) ==
    \E o \in {process_aggregation(res, source, target, d)} :
        \/ o.status = "raised"
        \/ /\ o.status = "returned"
           /\ \/ o.rows # <<>>
              \/ ~o.expired /\ o.buf # <<>> /\ Last(o.buf) = Len(source)

\* C19, as stated, on a source table that does not change: after a call that
\* was stopped by its deadline empty-handed, some deadline lets the next call
\* store a row or reach the slot of the newest source row (or raise).  Where
\* this fails every later call leaves the target table, and so the cursor,
\* as it is: the cursor stays at the same slot forever.
C19_ForwardProgress ==
    StoppedEmptyHanded => \E d \in Deadlines : Advances(d)

-----------------------------------------------------------------------------
(* Grid clipping *)

\* what the claim says one row adds to <<grid, solar, home, num_samples>>
Contribution(row) ==
    <<IF row.grid <= 0 THEN 0 ELSE row.grid, row.solar, row.home, 1>>

\* the totals t and a row's contribution c, added
Plus(t, c) == <<t[1] + c[1], t[2] + c[2], t[3] + c[3], t[4] + c[4]>>

\* C20: a row with grid <= 0 adds 0 to the grid accumulator, its solar and
\* home as they are, and 1 to the sample count (grid=-5, solar=2, home=3 adds
\* 0, 2, 3); a row with grid > 0 adds its grid too.  Checked for every row of
\* the source table, first in a slot and after the row before it.
C20_GridClipping ==
    /\ slot_totals(<<[grid |-> -5, solar |-> 2, home |-> 3]>>, 1)
           = <<0, 2, 3, 1>>
    /\ \A n \in 1 .. Len(source) :
           slot_totals(<<source[n]>>, 1) = Contribution(source[n])
    /\ \A n \in 2 .. Len(source) :
           slot_totals(<<source[n - 1], source[n]>>, 2)
               = Plus(Contribution(source[n - 1]), Contribution(source[n]))

\* a row without grid import but with solar production lies in a stored slot
C20_Witness ==
    \E j \in 1 .. Len(source) : \E i \in 1 .. Len(target) :
        /\ source[j].grid <= 0
        /\ source[j].solar > 0
        /\ time_slot(res, source[j].ts) = target[i].ts

-----------------------------------------------------------------------------
(* The methods of the aggregator classes *)

\* the stored value out is the number k / n
IsQuotient(out, k, n) == out[2] > 0 /\ out[1] * n = k * out[2]

\* C21: fiveminute and hourly store sum / n when n > 0 and 0 when n = 0 (600
\* over 10 samples gives 60); weekly and monthly store the sum unchanged
\* whatever n is (42 stays 42).
C21_UnitConversion ==
    /\ \A r \in {"fiveminute", "hourly"} :
           IsQuotient(convert_units(r, 600, 10), 60, 1)
    /\ \A r \in {"weekly", "monthly"} : \A n \in {0, 1, 10} :
           IsQuotient(convert_units(r, 42, n), 42, 1)
    /\ last.op = "convert_units" =>
           IF res \in {"fiveminute", "hourly"}
           THEN IF last.n > 0 THEN IsQuotient(last.out, last.value, last.n)
                ELSE IsQuotient(last.out, 0, 1)
           ELSE IsQuotient(last.out, last.value, 1)

\* a sum that n does not divide was converted to an average
C21_Witness ==
    /\ last.op = "convert_units"
    /\ res = "hourly"
    /\ last.value = 100
    /\ last.n = 7
    /\ last.out = <<100, 7>>

\* C22: time_slot(time_slot(t)) = time_slot(t) and time_slot(t) <= t, for
\* each resolution and every timestamp t.
C22_SlotStartIdempotent ==
    last.op = "time_slot" =>
        /\ last.dt <= last.arg
        /\ time_slot(res, last.dt) = last.dt

\* time_slot was applied to a timestamp inside a slot, and, in another
\* state, to a slot start
C22_Witness ==
    /\ last.op = "time_slot"
    /\ last.dt < last.arg
    /\ res = "weekly"
    /\ Weekday(last.arg) = 6

\* C23: time_slot_increment(time_slot(t)) is strictly greater than
\* time_slot(t), for each resolution and every timestamp t.
C23_NoZeroLengthSlot ==
    (/\ last.op = "time_slot_increment"
     /\ time_slot(res, last.arg) = last.arg)
        => last.dt > last.arg

\* the start of February 2024, a month of 29 days, was advanced to the start
\* of March
C23_Witness ==
    /\ last.op = "time_slot_increment"
    /\ res = "monthly"
    /\ last.arg = 31 * Day
    /\ last.dt = 60 * Day

-----------------------------------------------------------------------------
(* Sparse target table *)

AllZero(sums) == sums[1] = 0 /\ sums[2] = 0 /\ sums[3] = 0

\* the accumulated values of the slot starting at s are all zero
ZeroSlot(s) == AllZero(SumsOf(RowsOfSlot(s), Len(RowsOfSlot(s))))

\* C24: a slot whose grid, solar and home sums are all zero, a slot without
\* any source row included, has no row in the target table.
C24_NoRowForZeroSlot ==
    \A i \in 1 .. Len(target) : ~ZeroSlot(time_slot(res, target[i].ts))

\* the last call went through a slot that holds a row of zeros, stored
\* nothing for it, and stored the row of another slot
C24_Witness ==
    /\ last.status = "returned"
    /\ last.batch >= 1
    /\ \E k \in 1 .. Len(last.slots) :
           /\ RowsOfSlot(last.slots[k]) # <<>>
           /\ ZeroSlot(last.slots[k])
           /\ \A i \in 1 .. Len(target) : target[i].ts # last.slots[k]

-----------------------------------------------------------------------------
(* No reprocessing *)

\* the source row in the k-th place of the buffer the last call fetched
Fetched(k) == source[last.buf[k]]

\* the source row is in the slot of the i-th row of the target table
InSlotOfRow(row, i) ==
    /\ row.ts >= target[i].ts
    /\ row.ts < time_slot_increment(res, target[i].ts, 1)

\* C25: every source row a pass fetches has a timestamp at or after the
\* pass's cursor, the cursor is the slot after the last row committed before
\* the pass, and so no fetched row belongs to the slot of a row committed
\* before the pass.
C25_NoReprocessing ==
    last.cursor # <<>> =>
        /\ \A k \in 1 .. Len(last.buf) : Fetched(k).ts >= last.cursor[1]
        /\ last.before > 0 =>
               last.cursor[1]
                   = time_slot_increment(res, target[last.before].ts, 1)
        /\ \A k \in 1 .. Len(last.buf) : \A i \in 1 .. last.before :
               ~InSlotOfRow(Fetched(k), i)

\* a pass that began behind committed rows fetched rows and stored a row,
\* while the source holds a row of a slot committed before
C25_Witness ==
    /\ last.status = "returned"
    /\ last.before >= 1
    /\ last.buf # <<>>
    /\ last.batch >= 1
    /\ \E j \in 1 .. Len(source) : \E i \in 1 .. last.before :
           InSlotOfRow(source[j], i)

-----------------------------------------------------------------------------
(* What the caller learns *)

\* the call was stopped by its deadline, or its scan ended at a window end
\* before the newest source row
StoppedEarly(outcome) ==
    /\ outcome.status = "returned"
    /\ \/ outcome.expired
       \/ outcome.buf # <<>> /\ Last(outcome.buf) < Len(source)

\* the call ran its loop up to the slot of the newest source row
RanToNewest(outcome) ==
    /\ outcome.status = "returned"
    /\ ~outcome.expired
    /\ outcome.buf # <<>>
    /\ Last(outcome.buf) = Len(source)

\* C26, as stated: of two calls that could be made now, one that stops early
\* (more work remains) and one that runs to the newest source row (caught
\* up), the caller gets different return values.
C26_StopEarlyIsTold ==
    \A d \in Deadlines :
        \A early \in {process_aggregation(res, source, target, d)} :
        \A whole \in {process_aggregation(res, source, target, Never)} :
            (StoppedEarly(early) /\ RanToNewest(whole))
                => return_value(early) # return_value(whole)

-----------------------------------------------------------------------------
(* The history command *)

\* history() ran to its end after a successful login
HistoryDone == last.pc = "done" /\ last.charted # <<>>

\* C27, as stated: when --history ends, process_chart_data has been called
\* for every month from the month of the install date to the month of
\* yesterday.
C27_HistoryCoversEveryMonth ==
    HistoryDone =>
        \A m \in last.install[1] .. last.yesterday[1] :
            \E i \in 1 .. Len(last.charted) : last.charted[i] = m

-----------------------------------------------------------------------------
(* Termination of the two loops *)

\* C28, as stated: every iteration of the slot loop leaves slot_start
\* strictly greater than it found it, and the loop ends also when the
\* deadline never expires.
C28_SlotLoopAdvances ==
    /\ last.status # "hang"
    /\ \A k \in 1 .. Len(last.slots) - 1 : last.slots[k] < last.slots[k + 1]

\* the rows the first window query of the last call returned
FirstWindow ==
    query_window(source, last.cursor[1],
                 query_end_timestamp(res, last.cursor[1]))

\* the source rows the gap skip of the first window looks through
BehindFirstWindow ==
    query_next_data(source, time_slot_increment(res, last.cursor[1], 1))

\* the last call made its first window query; the rows it returned, if any,
\* end before advance(slot_start) and before the newest source row; a
\* non-zero row lies further on
GapAfterFirstWindow ==
    /\ last.cursor # <<>>
    /\ last.queries >= 1
    /\ FirstWindow # <<>> =>
           /\ Last(FirstWindow).ts
                  < time_slot_increment(res, last.cursor[1], 1)
           /\ Last(FirstWindow).ts < Last(source).ts
    /\ BehindFirstWindow # <<>>

\* C29, as stated: the scanner then jumps to the slot of the first later
\* non-zero row and fetches again from there, also when the window held no
\* source row at all, and the call does not raise.
C29_GapSkipInScanner ==
    GapAfterFirstWindow =>
        /\ last.status # "raised"
        /\ \/ last.expired
           \/ \E k \in 1 .. Len(last.buf) :
                  last.buf[k] = BehindFirstWindow[1].id

\* the newest row the scan of the last call fetched
NewestFetched == source[Last(last.buf)]

\* the scan of the last call ran to its own end: no deadline stopped it and
\* it did not raise
ScanEnded ==
    /\ last.status \in {"returned", "hang"}
    /\ ~last.expired
    /\ last.buf # <<>>

\* one of the three ends of the scan loop holds for slot_start s
EndOfScan(s) ==
    \/ NewestFetched.ts >= time_slot_increment(res, s, 1)
    \/ NewestFetched.ts >= Last(source).ts
    \/ query_next_data(source, time_slot_increment(res, s, 1)) = <<>>

\* C30: the scan loop of get_source_data ends for every source table, also
\* when the deadline never expires: every gap skip sets slot_start to a
\* value strictly greater than before, so there is at most one window query
\* per source row and one more, and a scan that no deadline stopped ended
\* because the fetched rows reach advance(slot_start), reach the newest
\* source timestamp, or no later non-zero source row exists.
C30_ScanTerminates ==
    /\ last.status # "stuck"
    /\ \A k \in 1 .. Len(last.scans) - 1 : last.scans[k] < last.scans[k + 1]
    /\ Len(last.scans) <= Len(source) + 1
    /\ ScanEnded => EndOfScan(Last(last.scans))

\* a call whose deadline never expired skipped a gap and returned
C30_Witness ==
    /\ last.status = "returned"
    /\ ~last.expired
    /\ Len(last.scans) >= 2
    /\ last.batch >= 1

-----------------------------------------------------------------------------
(* The deadline inside a call *)

\* the window queries and slot iterations of the last call
WorkDone == last.queries + Len(last.slots)

\* C31: every window query and every slot iteration of a call follows a
\* deadline check that returned false, and once a check has returned true
\* the call makes no further window query and processes no further slot: a
\* call with a deadline that lets d checks pass does at most d queries and
\* slots; a call that found the deadline expired did exactly d, processed no
\* slot when the scan found it expired, returned without raising and
\* committed the batch built so far.
C31_NoWorkAfterExpiry ==
    last.deadline # Never =>
        /\ WorkDone <= last.deadline
        /\ last.expired =>
               /\ last.status = "returned"
               /\ WorkDone = last.deadline
               /\ last.checks \in {WorkDone + 1, WorkDone + 2}
               /\ last.scan_expired => (last.slots = <<>> /\ last.batch = 0)
               /\ last.written = last.batch
               /\ Len(target) = last.before + last.batch

\* a call found the deadline expired in the slot loop, after a window query
\* and a slot that gave a row
C31_Witness ==
    /\ last.expired
    /\ ~last.scan_expired
    /\ last.queries >= 1
    /\ Len(last.slots) >= 1
    /\ last.written >= 1

-----------------------------------------------------------------------------
(* Seventh specification: aggregate_data, its four passes under one deadline *)

\* most invocations of aggregate_data in a behaviour
MaxCalls == 2

\* every pass is given the whole deadline anew
deadline_renewed(deadline, outcome) == deadline

\* What the deadline of aggregate_data still allows after a pass: the passes
\* are given the same point in time, so the checks a pass made are gone, and
\* a deadline found expired stays expired.
deadline_after(deadline, outcome) ==
    IF deadline = Never THEN Never
    ELSE IF outcome.expired THEN 0
    ELSE deadline - outcome.checks

\* the trace of one pass
pass_entry(r, outcome) ==
    [pass    |-> r,
     status  |-> outcome.status,
     expired |-> outcome.expired,
     work    |-> outcome.queries + Len(outcome.slots),
     written |-> IF outcome.status = "returned" THEN Len(outcome.rows) ELSE 0]

\* aggregate_data(deadline) from its i-th pass on: the passes run one after
\* the other in the order of the four statements, and an exception of one
\* of them leaves aggregate_data
RECURSIVE aggregate_data_until(_, _, _, _, _)

after_pass_until(d, deadline, tables, i, log, outcome) ==
    IF raises(outcome)
    THEN [tables |-> tables,
          log |-> Append(log, pass_entry(PassOrder[i], outcome))]
    ELSE aggregate_data_until(d, deadline_after(deadline, outcome),
             [tables EXCEPT ![PassOrder[i]] = table_after(@, outcome)],
             i + 1, Append(log, pass_entry(PassOrder[i], outcome)))

aggregate_data_until(d, deadline, tables, i, log) ==
    IF i > Len(PassOrder) THEN [tables |-> tables, log |-> log]
    ELSE after_pass_until(d, deadline, tables, i, log,
             process_aggregation(PassOrder[i], source_rows(PassOrder[i], d),
                                 tables[PassOrder[i]], deadline))

\* samples in three 5-minute slots and in two later hours
PassSampleTimes ==
    {TimeOf("fiveminute", <<i, 0>>) : i \in 0 .. 2}
        \cup {TimeOf("hourly", <<i, 0>>) : i \in 1 .. 2}

\* days starting three weeks and two later months
PassDailyTimes ==
    {TimeOf("weekly", <<i, 0>>) : i \in 0 .. 2}
        \cup {TimeOf("monthly", <<i, 0>>) : i \in 1 .. 2}

\* no invocation yet
NoInvocation == [calls |-> 0, deadline |-> Never, log |-> <<>>,
                 before |-> NoDb.tables]

InitPasses ==
    /\ res = "fiveminute"
    /\ source = <<>>
    /\ target = <<>>
    /\ last = NoInvocation
    /\ db \in {[NoDb EXCEPT !.samples = RowsAt(s), !.daily = RowsAt(dl)] :
                  s \in TimesOver(PassSampleTimes),
                  dl \in TimesOver(PassDailyTimes)}

\* One invocation of aggregate_data with some deadline.
AggregateData ==
    /\ last.calls < MaxCalls
    /\ \E deadline \in Deadlines :
       \E done \in {aggregate_data_until(db, deadline, db.tables, 1, <<>>)} :
           /\ db' = [db EXCEPT !.tables = done.tables]
           /\ last' = [calls |-> last.calls + 1, deadline |-> deadline,
                       log |-> done.log, before |-> db.tables]
    /\ UNCHANGED <<res, source, target>>

NextPasses == AggregateData

SpecPasses == InitPasses /\ [][NextPasses]_vars

-----------------------------------------------------------------------------
(* The passes of one invocation *)

\* the pass of entry e raised
Raised(e) == e.status \in {"raised", "malformed"}

RECURSIVE WorkOf(_, _)
\* the window queries and slot iterations of the first n passes of the log
WorkOf(log, n) == IF n = 0 THEN 0 ELSE WorkOf(log, n - 1) + log[n].work

\* C32: aggregate_data runs the passes in the order fiveminute, hourly,
\* weekly, monthly under one deadline.  All four are invoked unless one
\* raises, and a pass that raises is the last one invoked.  The passes
\* together make no more window queries and slot iterations than the deadline
\* allows; every pass after one that found the deadline expired is invoked,
\* makes no query, processes no slot and writes no row.  Each table grows by
\* what its pass wrote.
C32_PassesUnderOneDeadline ==
    last.calls > 0 =>
        /\ last.log = [i \in 1 .. Len(last.log) |->
               [last.log[i] EXCEPT
                   !.pass = <<"fiveminute", "hourly", "weekly", "monthly">>[i]]]
        /\ Len(last.log) \in 1 .. 4
        /\ \A i \in 1 .. Len(last.log) :
               Raised(last.log[i]) <=> (i = Len(last.log) /\ i < 4)
                                       \/ (i = 4 /\ Raised(last.log[4]))
        /\ last.deadline # Never =>
               WorkOf(last.log, Len(last.log)) <= last.deadline
        /\ \A i \in 1 .. Len(last.log) : \A j \in i + 1 .. Len(last.log) :
               last.log[i].expired =>
                   /\ last.log[j].work = 0
                   /\ last.log[j].written = 0
                   /\ last.log[j].expired \/ last.log[j].status = "nosource"
        /\ \A i \in 1 .. 4 :
               Len(db.tables[PassOrder[i]])
                   = Len(last.before[PassOrder[i]])
                         + (IF i <= Len(last.log)
                            THEN last.log[i].written ELSE 0)

\* the deadline expired in the first pass, after it wrote a row, and the
\* three later passes were invoked and wrote nothing
C32_Witness ==
    /\ last.calls > 0
    /\ Len(last.log) = 4
    /\ last.log[1].expired
    /\ last.log[1].written >= 1
    /\ last.log[2].expired

\* a pass raised and the later passes were not invoked
C32_WitnessRaised ==
    /\ last.calls > 0
    /\ Len(last.log) = 2
    /\ Raised(last.log[2])

-----------------------------------------------------------------------------
(* The calendar of the monthly slots *)

\* the year and the month (0 = January) of month number k, k = 0 being
\* January 2024
YearOf(k) == 2024 + (k \div 12)
MonthOfYear(k) == k % 12

LeapYear(y) == y % 4 = 0 /\ (y % 100 # 0 \/ y % 400 = 0)

\* the days of month number k
MonthLength(k) ==
    IF MonthOfYear(k) = 1 THEN (IF LeapYear(YearOf(k)) THEN 29 ELSE 28)
    ELSE IF MonthOfYear(k) \in {3, 5, 8, 10} THEN 30
    ELSE 31

\* the day number of the first day of month number k
RECURSIVE FirstOfMonth(_)
FirstOfMonth(k) ==
    IF k = 0 THEN 0
    ELSE IF k > 0 THEN FirstOfMonth(k - 1) + MonthLength(k - 1)
    ELSE FirstOfMonth(k + 1) - MonthLength(k)

\* the months the timestamps drawn, and what MaxOps advances make of them,
\* can lie in
MonthNumbers ==
    (0 - (DaysBefore \div 28) - 1) .. ((DaysAfter \div 28) + 1 + 13 * MaxOps)

\* the start of every month, in minutes
MonthStarts == [k \in MonthNumbers |-> FirstOfMonth(k) * Day]

\* C33: for every month start m and every increment n >= 1, the monthly
\* time_slot_increment(m, n) is the start of the month exactly n months after
\* m: no month is skipped or repeated, whatever the lengths of the months in
\* between, also across the year change.
C33_MonthlyAdvance ==
    (last.op = "time_slot_increment" /\ res = "monthly") =>
        \A k \in MonthNumbers :
            last.arg = MonthStarts[k] =>
                /\ k + last.increment \in MonthNumbers
                /\ last.dt = MonthStarts[k + last.increment]

\* the start of February 2025, a month of 28 days, was advanced by 13 months,
\* over months of 30 and 31 days and the year change, to the start of March
\* 2026
C33_Witness ==
    /\ last.op = "time_slot_increment"
    /\ res = "monthly"
    /\ last.arg = 397 * Day
    /\ last.increment = 13
    /\ last.dt = (397 + 365 + 28) * Day

\* the start of December 2023 was advanced to the start of January 2024
C33_WitnessYearChange ==
    /\ last.op = "time_slot_increment"
    /\ res = "monthly"
    /\ last.arg = (0 - 31) * Day
    /\ last.increment = 1
    /\ last.dt = 0

\* C34: the slots of each resolution partition the timeline.  Every
\* timestamp t lies in the slot that starts at time_slot(t):
\* time_slot(t) <= t < time_slot_increment(time_slot(t)).  time_slot_increment
\* maps a slot start to a slot start, for every increment n >= 1.  A weekly
\* slot starts at midnight of the Monday of t's week (2024-01-01, minute 0,
\* is a Monday).
C34_SlotsPartitionTimeline ==
    /\ last.op = "time_slot" =>
           /\ last.dt <= last.arg
           /\ last.arg < time_slot_increment(res, last.dt, 1)
           /\ res = "weekly" =>
                  /\ last.dt % (7 * Day) = 0
                  /\ last.arg - last.dt < 7 * Day
    /\ (/\ last.op = "time_slot_increment"
        /\ time_slot(res, last.arg) = last.arg)
           => /\ last.increment >= 1
              /\ time_slot(res, last.dt) = last.dt
              /\ last.dt > last.arg

\* time_slot was applied to the last minute of January 2024, and gave the
\* start of the month
C34_Witness ==
    /\ last.op = "time_slot"
    /\ res = "monthly"
    /\ last.arg = 30 * Day + 1439
    /\ last.dt = 0

\* a weekly slot start was advanced by 12 slots
C34_WitnessIncrement ==
    /\ last.op = "time_slot_increment"
    /\ res = "weekly"
    /\ last.arg = 7 * Day
    /\ last.increment = 12
    /\ last.dt = 13 * 7 * Day

-----------------------------------------------------------------------------
(* Alignment of the stored rows *)

\* t is the start of a slot
Aligned(t) == time_slot(res, t) = t

\* C35: every row of the target table has a slot-aligned timestamp, the
\* cursor of every call is slot-aligned, and so the cursor the code computes
\* from the newest row without flooring it, time_slot_increment(timestamp),
\* equals time_slot_increment(time_slot(timestamp)).
C35_RowsAreAligned ==
    /\ \A i \in 1 .. Len(target) : Aligned(target[i].ts)
    /\ last.cursor # <<>> => Aligned(last.cursor[1])
    /\ target # <<>> =>
           first_slot(res, get_last_aggregate_timestamp(res, source, target)[1])
               = time_slot_increment(res, time_slot(res, Last(target).ts), 1)

\* a call on an empty target table, whose cursor comes from a first source
\* row that is not slot-aligned, wrote a row
C35_Witness ==
    /\ last.status = "returned"
    /\ last.before = 0
    /\ last.written >= 1
    /\ ~Aligned(source[1].ts)

-----------------------------------------------------------------------------
(* Eighth specification: source rows of either sign in adjacent slots *)

\* <<grid, solar, home>>: production, a negative home reading alone, export
\* with a negative solar reading, and the all-zero reading
SignedValues == {<<100, 50, -40>>, <<0, 0, -30>>, <<-5, -20, 0>>, <<0, 0, 0>>}

SignedInputs == ({<<i, 0>> : i \in 0 .. 3} \cup {<<1, 1>>}) \X SignedValues

StoreSigned ==
    /\ last.status # "hang"
    /\ Len(source) < MaxSrc
    /\ \E in \in SignedInputs : StoreRow(in[1], in[2], TRUE)
    /\ last' = NoCall
    /\ UNCHANGED <<res, target, db>>

NextSigns == StoreSigned \/ ProcessAggregation

SpecSigns == Init /\ [][NextSigns]_vars

-----------------------------------------------------------------------------
(* The sign of the stored values *)

\* the slot starting at s has a non-zero sum and no positive one
NegativeOnly(s) ==
    \E t \in {SumsOf(RowsOfSlot(s), Len(RowsOfSlot(s)))} :
        /\ ~AllZero(t)
        /\ \A k \in 1 .. 3 : t[k] <= 0

\* C36: every row of the target table has a strictly positive grid, solar or
\* home value and a grid value that is not negative; every call of
\* convert_units is made with num_samples >= 1, once per value of a stored
\* row; a slot whose only non-zero sums are negative has no row.
C36_StoredValuesSign ==
    /\ \A i \in 1 .. Len(target) :
           /\ target[i].grid[2] > 0 /\ target[i].solar[2] > 0
           /\ target[i].home[2] > 0
           /\ target[i].grid[1] >= 0
           /\ \/ target[i].grid[1] > 0
              \/ target[i].solar[1] > 0
              \/ target[i].home[1] > 0
           /\ ~NegativeOnly(target[i].ts)
    /\ \A k \in 1 .. Len(last.samples) : last.samples[k] >= 1
    /\ last.status \in {"returned", "hang"} => Len(last.samples) = last.batch

\* the last call went through a slot whose only non-zero sum is negative,
\* stored nothing for it, and stored the row of another slot
C36_Witness ==
    /\ last.status = "returned"
    /\ last.written >= 1
    /\ \E k \in 1 .. Len(last.slots) :
           /\ NegativeOnly(last.slots[k])
           /\ \A i \in 1 .. Len(target) : target[i].ts # last.slots[k]

-----------------------------------------------------------------------------
(* The buffer of the scan *)

\* C37: the buffer get_source_data returns holds source rows in ascending
\* order of id and of timestamp, none of them twice, also when the scan
\* skipped a gap and appended a second window, so that its last element is
\* the newest fetched row.  The source tables of this specification have
\* their ids in the order of their timestamps.
C37_BufferAscending ==
    /\ \A j \in 1 .. Len(source) - 1 : source[j].ts < source[j + 1].ts
    /\ \A k \in 1 .. Len(last.buf) - 1 :
           /\ last.buf[k] < last.buf[k + 1]
           /\ source[last.buf[k]].ts < source[last.buf[k + 1]].ts
    /\ \A k \in 1 .. Len(last.buf) :
           source[last.buf[k]].ts <= source[Last(last.buf)].ts

\* the scan of the last call skipped a gap and holds rows of both windows
C37_Witness ==
    /\ last.status = "returned"
    /\ Len(last.scans) >= 2
    /\ Len(last.buf) >= 2
    /\ source[last.buf[1]].ts < last.scans[2]
    /\ source[Last(last.buf)].ts >= last.scans[2]

-----------------------------------------------------------------------------
(* Ninth specification: daily ingestion, chart after chart                  *)
(*                                                                          *)
(* last holds yesterday (the day before today's UTC midnight),              *)
(* last_dailydata_timestamp, and of the last call of process_chart_data     *)
(* the rows it inserted and the last_dailydata_timestamp it found.          *)

\* most calls of process_chart_data in a behaviour
MaxCharts == 2

\* The charts of a month: the tuples of some of its days, in any order.
Charts ==
    {chart \in UNION {[1 .. n -> Dates] : n \in 0 .. Cardinality(ChartDays)} :
        /\ \A i \in 1 .. Len(chart) : chart[i][1] = chart[1][1]
        /\ \A i \in 1 .. Len(chart) : \A j \in 1 .. Len(chart) :
               i # j => chart[i] # chart[j]}

\* init_database: last_dailydata_timestamp is the timestamp of the newest
\* row of daily, None on an empty table
InitDaily ==
    /\ res = "monthly"
    /\ source = <<>>
    /\ target = <<>>
    /\ \E old \in {<<>>} \cup {<<dt>> : dt \in Dates} :
       \E yesterday \in Dates :
           /\ db = [NoDb EXCEPT !.daily = old]
           /\ last = [yesterday |-> yesterday,
                      last_dailydata_timestamp |-> old,
                      found |-> old, inserted |-> <<>>, calls |-> 0]

\* one call of process_chart_data
ProcessChartData ==
    /\ last.calls < MaxCharts
    /\ \E chart \in Charts :
       \E r \in {process_chart_data(chart, db.daily,
                      last.last_dailydata_timestamp, last.yesterday)} :
           /\ db' = [db EXCEPT !.daily = r.daily]
           /\ last' = [last EXCEPT
                          !.last_dailydata_timestamp =
                              r.last_dailydata_timestamp,
                          !.found = last.last_dailydata_timestamp,
                          !.inserted = SubSeq(r.daily, Len(db.daily) + 1,
                                              Len(r.daily)),
                          !.calls = @ + 1]
    /\ UNCHANGED <<res, source, target>>

\* midnight passes: datetime.now() is a later day
NewDay ==
    /\ \E yesterday \in Dates :
           /\ Before(last.yesterday, yesterday)
           /\ last' = [last EXCEPT !.yesterday = yesterday]
    /\ UNCHANGED <<res, source, target, db>>

NextDaily == ProcessChartData \/ NewDay

SpecDaily == InitDaily /\ [][NextDaily]_vars

-----------------------------------------------------------------------------
(* Daily ingestion *)

-----------------------------------------------------------------------------
(* Tenth specification: throttled_login and the clock                       *)
(*                                                                          *)
(* Time is in whole seconds.  last holds now (the clock),                   *)
(* last_login_attempt (None is <<>>) and, of the last call of               *)
(* throttled_login, the time it was made at, the last_login_attempt it      *)
(* found, whether it called login() and what it returned.                   *)

\* most times the clock is moved in a behaviour
MaxTicks == 5

\* the seconds that pass between two calls
Waits == {1, 29, 30, 31, 3600, 86399, 86400}

\* "timedelta.seconds": the seconds of the difference without its days
seconds(delta) == delta % 86400

\* "self.last_login_attempt is not None and
\*  (datetime.now() - self.last_login_attempt).seconds < 30"
login_delayed(now, last_login_attempt) ==
    /\ last_login_attempt # <<>>
    /\ seconds(now - last_login_attempt[1]) < 30

InitLogin ==
    /\ res = "fiveminute"
    /\ source = <<>>
    /\ target = <<>>
    /\ db = NoDb
    /\ last = [now |-> 0, last_login_attempt |-> <<>>, ticks |-> 0,
               op |-> "none", at |-> 0, found |-> <<>>, login |-> FALSE,
               result |-> FALSE]

\* time passes outside throttled_login
Wait ==
    /\ last.ticks < MaxTicks
    /\ \E w \in Waits :
           last' = [last EXCEPT !.now = @ + w, !.ticks = @ + 1]
    /\ UNCHANGED <<res, source, target, db>>

\* One call of throttled_login: inside the delay it sleeps a second and
\* returns False; otherwise it notes the attempt and returns what login()
\* returns.
ThrottledLogin ==
    /\ last.ticks < MaxTicks
    /\ IF login_delayed(last.now, last.last_login_attempt)
       THEN last' = [last EXCEPT !.op = "throttled_login", !.at = last.now,
                        !.found = last.last_login_attempt,
                        !.login = FALSE, !.result = FALSE,
                        !.now = @ + 1, !.ticks = @ + 1]
       ELSE \E ok \in BOOLEAN :
                last' = [last EXCEPT !.op = "throttled_login",
                            !.at = last.now,
                            !.found = last.last_login_attempt,
                            !.last_login_attempt = <<last.now>>,
                            !.login = TRUE, !.result = ok,
                            !.ticks = @ + 1]
    /\ UNCHANGED <<res, source, target, db>>

NextLogin == Wait \/ ThrottledLogin

SpecLogin == InitLogin /\ [][NextLogin]_vars

-----------------------------------------------------------------------------
(* Login rate limiting *)

\* the last call of throttled_login was made this many seconds after the
\* attempt before it
SinceLastAttempt == last.at - last.found[1]

\* C39, as stated: a call of throttled_login made less than 30 seconds after
\* the previous attempt returns False without calling login() and leaves
\* last_login_attempt alone; a call made 30 seconds or more after the
\* previous attempt performs a login.
C39_LoginRateLimit ==
    (last.op = "throttled_login" /\ last.found # <<>>) =>
        /\ SinceLastAttempt < 30 =>
               /\ ~last.login
               /\ ~last.result
               /\ last.last_login_attempt = last.found
        /\ SinceLastAttempt >= 30 => last.login

====
